---- MODULE Spec2Model ----
(***************************************************************************)
(* torch.nn.Parameter (src/torch/nn/parameter.py): construction, deep copy *)
(* with an identity-keyed memo, and the two-arity reduce recipe.           *)
(*                                                                         *)
(* Python objects live on three heaps, addressed by identity (the index):  *)
(*   tensors : tensor storages (a tuple of elements; <<>> is the empty     *)
(*             tensor torch.Tensor())                                      *)
(*   dicts   : mutable mappings (the tags dictionaries)                    *)
(*   params  : Parameter instances, holding REFERENCES into the two heaps  *)
(***************************************************************************)
EXTENDS Integers, Sequences, FiniteSets, TLC

\* ---- bounds of the model ----
MaxParams == 2

\* ---- value domains ----
None == 0
\* identities of the objects the caller holds before any Parameter exists
CallerTensor == 1
CallerDict == 1
\* identity of the object that contains the Parameter (a Module): a memo key
\* that is no Parameter
Container == 0
Keys == {"optim"}
Vals == {"sgd", "adam"}
Elems == {0, 1}
EmptyDict == <<>>
DictVals == {EmptyDict} \cup UNION {[K -> Vals] : K \in (SUBSET Keys) \ {{}}}
RequiresGradArgs == {<<>>, <<TRUE>>, <<FALSE>>}

VARIABLES tensors, dicts, params, memo, recipe, ret
vars == <<tensors, dicts, params, memo, recipe, ret>>

Ids(heap) == 1..Len(heap)

\* torch.Tensor(): a new empty tensor
torch_Tensor == <<>>

\* OrderedDict(): the empty hook mapping placed in the recipe
OrderedDict == <<>>

\* truthiness of a mapping, as tested by `if self.tags:`
Truthy(d) == DOMAIN d # {}

\* a parameter declared with a default value: the tuple <<>> is "not passed"
Default(arg, dflt) == IF arg = <<>> THEN dflt ELSE arg[1]

\* __new__ that drops its requires_grad argument
Parameter_new_ignores_grad(T, D, P, data, requires_grad, tags) ==
  LET T1 == IF data = None THEN Append(T, torch_Tensor) ELSE T
      data1 == IF data = None THEN Len(T1) ELSE data
      D1 == IF tags = None THEN Append(D, EmptyDict) ELSE D
      tags1 == IF tags = None THEN Len(D1) ELSE tags
      instance == [data |-> data1, requires_grad |-> TRUE, tags |-> tags1]
  IN [tensors |-> T1, dicts |-> D1, params |-> Append(P, instance), instance |-> Len(P) + 1]

\* __new__ that stores dict(tags), a copy of the mapping passed
Parameter_new_copies_tags(T, D, P, data, requires_grad, tags) ==
  LET T1 == IF data = None THEN Append(T, torch_Tensor) ELSE T
      data1 == IF data = None THEN Len(T1) ELSE data
      D1 == IF tags = None THEN Append(D, EmptyDict) ELSE Append(D, D[tags])
      instance == [data |-> data1, requires_grad |-> Default(requires_grad, TRUE), tags |-> Len(D1)]
  IN [tensors |-> T1, dicts |-> D1, params |-> Append(P, instance), instance |-> Len(P) + 1]

\* def __new__(cls, data=None, requires_grad=True, tags=None), evaluated on
\* the heaps T (tensors), D (dicts), P (params); returns the heaps after the
\* call and the identity of the new instance
Parameter_new(T, D, P, data, requires_grad, tags) ==
  LET T1 == IF data = None THEN Append(T, torch_Tensor) ELSE T
      data1 == IF data = None THEN Len(T1) ELSE data
      D1 == IF tags = None THEN Append(D, EmptyDict) ELSE D
      tags1 == IF tags = None THEN Len(D1) ELSE tags
      instance == [data |-> data1, requires_grad |-> Default(requires_grad, TRUE), tags |-> tags1]
  IN [tensors |-> T1, dicts |-> D1, params |-> Append(P, instance), instance |-> Len(P) + 1]

\* clone that returns the storage it was given
clone_alias(T, data) == [tensors |-> T, data |-> data]

\* self.data.clone(memory_format=torch.preserve_format): a new storage with
\* the same elements
clone(T, data) == [tensors |-> Append(T, T[data]), data |-> Len(T) + 1]

\* __deepcopy__ that answers a memo hit with self
Parameter_deepcopy_returns_self(T, D, P, M, self) ==
  IF self \in DOMAIN M
  THEN [tensors |-> T, dicts |-> D, params |-> P, memo |-> M, result |-> self]
  ELSE LET c == clone(T, P[self].data)
           r == Parameter_new(c.tensors, D, P, c.data, <<P[self].requires_grad>>, P[self].tags)
       IN [tensors |-> r.tensors, dicts |-> r.dicts, params |-> r.params,
           memo |-> (self :> r.instance) @@ M, result |-> r.instance]

\* __deepcopy__ that passes a copy of self.tags to the new Parameter
Parameter_deepcopy_clones_tags(T, D, P, M, self) ==
  IF self \in DOMAIN M
  THEN [tensors |-> T, dicts |-> D, params |-> P, memo |-> M, result |-> M[self]]
  ELSE LET c == clone(T, P[self].data)
           r == Parameter_new(c.tensors, Append(D, D[P[self].tags]), P, c.data,
                              <<P[self].requires_grad>>, Len(D) + 1)
       IN [tensors |-> r.tensors, dicts |-> r.dicts, params |-> r.params,
           memo |-> (self :> r.instance) @@ M, result |-> r.instance]

\* __deepcopy__ that records the copy under the copy's identity
Parameter_deepcopy_wrong_key(T, D, P, M, self) ==
  IF self \in DOMAIN M
  THEN [tensors |-> T, dicts |-> D, params |-> P, memo |-> M, result |-> M[self]]
  ELSE LET c == clone(T, P[self].data)
           r == Parameter_new(c.tensors, D, P, c.data, <<P[self].requires_grad>>, P[self].tags)
       IN [tensors |-> r.tensors, dicts |-> r.dicts, params |-> r.params,
           memo |-> (r.instance :> r.instance) @@ M, result |-> r.instance]

\* def __deepcopy__(self, memo), on heaps T, D, P and memo M
Parameter_deepcopy(T, D, P, M, self) ==
  IF self \in DOMAIN M
  THEN [tensors |-> T, dicts |-> D, params |-> P, memo |-> M, result |-> M[self]]
  ELSE LET c == clone(T, P[self].data)
           r == Parameter_new(c.tensors, D, P, c.data, <<P[self].requires_grad>>, P[self].tags)
       IN [tensors |-> r.tensors, dicts |-> r.dicts, params |-> r.params,
           memo |-> (self :> r.instance) @@ M, result |-> r.instance]

\* __reduce_ex__ without the branch: the tags are always the 4th argument
Parameter_reduce_ex_always_tags(D, P, self) ==
  [func |-> "_rebuild_parameter",
   args |-> <<P[self].data, P[self].requires_grad, OrderedDict, P[self].tags>>]

\* __reduce_ex__ without the branch: the tags are never an argument
Parameter_reduce_ex_never_tags(D, P, self) ==
  [func |-> "_rebuild_parameter",
   args |-> <<P[self].data, P[self].requires_grad, OrderedDict>>]

\* __reduce_ex__ that writes True where self.requires_grad belongs
Parameter_reduce_ex_grad_true(D, P, self) ==
  IF Truthy(D[P[self].tags])
  THEN [func |-> "_rebuild_parameter",
        args |-> <<P[self].data, TRUE, OrderedDict, P[self].tags>>]
  ELSE [func |-> "_rebuild_parameter",
        args |-> <<P[self].data, TRUE, OrderedDict>>]

\* def __reduce_ex__(self, proto)
Parameter_reduce_ex(D, P, self) ==
  IF Truthy(D[P[self].tags])
  THEN [func |-> "_rebuild_parameter",
        args |-> <<P[self].data, P[self].requires_grad, OrderedDict, P[self].tags>>]
  ELSE [func |-> "_rebuild_parameter",
        args |-> <<P[self].data, P[self].requires_grad, OrderedDict>>]

\* torch._utils._rebuild_parameter(data, requires_grad, backward_hooks, tags=None)
rebuild_parameter(T, D, P, args) ==
  Parameter_new(T, D, P, args[1], <<args[2]>>, IF Len(args) >= 4 THEN args[4] ELSE None)

\* the older reconstruction function takes (data, requires_grad, backward_hooks)
\* only: a call with any other number of positional arguments is rejected
old_rebuild_accepts(args) == Len(args) = 3

\* no Parameter method has returned since the last step of the environment
NoReturn == [op |-> "none", self |-> None, result |-> None]

NoRecipe == [func |-> "none", args |-> <<>>, self |-> None]

\* the memo of a traversal that reached the Parameter through its container
\* already maps the container's identity to the container's copy
ContainerMemo == (Container :> Container)

\* The caller holds one tensor with one element (0) and one mapping it may pass
\* as tags; no Parameter exists yet.  The deep copy traverses the container,
\* so its memo holds the container's entry when it reaches a Parameter.
Init ==
  /\ tensors = <<(<<0>>)>>
  /\ dicts \in {<<d>> : d \in DictVals}
  /\ params = <<>>
  /\ memo = ContainerMemo
  /\ recipe = NoRecipe
  /\ ret = NoReturn

Fits(r) == Len(r.params) <= MaxParams

\* Parameter(data, requires_grad, tags) called by user code
New(data, rg, tags) ==
  LET r == Parameter_new(tensors, dicts, params, data, rg, tags)
  IN /\ Fits(r)
     /\ tensors' = r.tensors
     /\ dicts' = r.dicts
     /\ params' = r.params
     /\ ret' = [op |-> "new", self |-> None, result |-> r.instance]
     /\ UNCHANGED <<memo, recipe>>

\* copy.deepcopy reaching `self` with the traversal's memo
DeepCopy(self) ==
  LET r == Parameter_deepcopy(tensors, dicts, params, memo, self)
  IN /\ Fits(r)
     /\ tensors' = r.tensors
     /\ dicts' = r.dicts
     /\ params' = r.params
     /\ memo' = r.memo
     /\ ret' = [op |-> "deepcopy", self |-> self, result |-> r.result]
     /\ UNCHANGED recipe

\* self.__reduce_ex__(proto)
ReduceEx(self) ==
  LET r == Parameter_reduce_ex(dicts, params, self)
  IN /\ recipe' = [func |-> r.func, args |-> r.args, self |-> self]
     /\ ret' = [op |-> "reduce", self |-> self, result |-> None]
     /\ UNCHANGED <<tensors, dicts, params, memo>>

\* replaying the recipe: func(*args)
Rebuild ==
  /\ recipe.func = "_rebuild_parameter"
  /\ LET r == rebuild_parameter(tensors, dicts, params, recipe.args)
     IN /\ Fits(r)
        /\ tensors' = r.tensors
        /\ dicts' = r.dicts
        /\ params' = r.params
        /\ ret' = [op |-> "rebuild", self |-> recipe.self, result |-> r.instance]
  /\ UNCHANGED <<memo, recipe>>

\* p.tags[k] = v
SetTag(p, k, v) ==
  /\ dicts' = [dicts EXCEPT ![params[p].tags] = (k :> v) @@ @]
  /\ dicts' # dicts
  /\ ret' = NoReturn
  /\ UNCHANGED <<tensors, params, memo, recipe>>

\* del p.tags[k]
DelTag(p, k) ==
  /\ k \in DOMAIN dicts[params[p].tags]
  /\ dicts' = [dicts EXCEPT ![params[p].tags] = [x \in (DOMAIN @) \ {k} |-> @[x]]]
  /\ ret' = NoReturn
  /\ UNCHANGED <<tensors, params, memo, recipe>>

\* the caller mutates the mapping it holds: tags[k] = v
CallerSetTag(k, v) ==
  /\ dicts' = [dicts EXCEPT ![CallerDict] = (k :> v) @@ @]
  /\ dicts' # dicts
  /\ ret' = NoReturn
  /\ UNCHANGED <<tensors, params, memo, recipe>>

\* p.data.fill_(e): an in-place write to every element of p's storage
Fill(p, e) ==
  /\ tensors' = [tensors EXCEPT ![params[p].data] = [i \in DOMAIN @ |-> e]]
  /\ tensors' # tensors
  /\ ret' = NoReturn
  /\ UNCHANGED <<dicts, params, memo, recipe>>

\* the arguments user code passes to Parameter(...)
DataArgs == {None, CallerTensor}
TagsArgs == {None, CallerDict}

Next ==
  \/ \E data \in DataArgs, rg \in RequiresGradArgs, tags \in TagsArgs : New(data, rg, tags)
  \/ \E self \in Ids(params) : DeepCopy(self)
  \/ \E self \in Ids(params) : ReduceEx(self)
  \/ Rebuild
  \/ \E p \in Ids(params), k \in Keys, v \in Vals : SetTag(p, k, v)
  \/ \E p \in Ids(params), k \in Keys : DelTag(p, k)
  \/ \E k \in Keys, v \in Vals : CallerSetTag(k, v)
  \/ \E p \in Ids(params), e \in Elems : Fill(p, e)

Spec == Init /\ [][Next]_vars

\* Constructions without supplied tags, deep copies and tag mutations only
NextOwn ==
  \/ \E data \in DataArgs, rg \in RequiresGradArgs : New(data, rg, None)
  \/ \E self \in Ids(params) : DeepCopy(self)
  \/ \E p \in Ids(params), k \in Keys, v \in Vals : SetTag(p, k, v)
  \/ \E p \in Ids(params), k \in Keys : DelTag(p, k)

SpecOwn == Init /\ [][NextOwn]_vars

TypeOK ==
  /\ \A p \in Ids(params) : params[p].data \in Ids(tensors) /\ params[p].tags \in Ids(dicts)
  /\ \A d \in Ids(dicts) : dicts[d] \in DictVals
  /\ DOMAIN memo \subseteq Ids(params) \cup {Container}

\* ---- helpers of the properties ----
TagsOf(p) == dicts[params[p].tags]
DataOf(p) == tensors[params[p].data]
\* the Parameters that have been deep-copied with this memo
Copied == DOMAIN memo \cap Ids(params)
Arity(D, P, p) == Len(Parameter_reduce_ex(D, P, p).args)

\* C1: the recipe returned by __reduce_ex__ has the arguments (data,
\* requires_grad, empty ordered mapping) and nothing else when the tags are
\* empty, so the older 3-argument reconstruction function accepts it; when the
\* tags are non-empty it has exactly 4 arguments, the 4th being the tags.
RecipeArity ==
  ret.op = "reduce" =>
    LET self == ret.self
        args == recipe.args
    IN /\ recipe.self = self
       /\ recipe.func = "_rebuild_parameter"
       /\ Len(args) \in {3, 4}
       /\ args[1] = params[self].data
       /\ args[2] = params[self].requires_grad
       /\ args[3] = OrderedDict
       /\ ~Truthy(TagsOf(self)) => Len(args) = 3 /\ old_rebuild_accepts(args)
       /\ Truthy(TagsOf(self)) => Len(args) = 4 /\ args[4] = params[self].tags

RecipeArityWitness ==
  /\ ret.op = "reduce"
  /\ Truthy(TagsOf(ret.self))
  /\ Len(recipe.args) = 4
  /\ \E q \in Ids(params) : ~Truthy(TagsOf(q))

\* C2: replaying the recipe yields a new Parameter whose data and
\* requires_grad equal those of the Parameter the recipe was taken from, and,
\* for the 4-argument form, whose tags equal that Parameter's tags.
RoundTrip ==
  ret.op = "rebuild" =>
    LET self == ret.self
        result == ret.result
    IN /\ result # self
       /\ result = Len(params)
       /\ DataOf(result) = DataOf(self)
       /\ params[result].requires_grad = params[self].requires_grad
       /\ Len(recipe.args) = 4 => TagsOf(result) = TagsOf(self)

RoundTripWitness ==
  /\ ret.op = "rebuild"
  /\ Len(recipe.args) = 4
  /\ Truthy(TagsOf(ret.result))
  /\ params[ret.result].requires_grad = FALSE
  /\ DataOf(ret.result) = <<1>>

\* C3: once a Parameter has an entry in the memo, the entry never changes and
\* every deep copy of that Parameter returns it without creating a Parameter;
\* the deep copy that finds no entry creates the copy and records it.
DeepCopyIdentity ==
  [][/\ \A self \in Copied : self \in DOMAIN memo' /\ memo'[self] = memo[self]
     /\ ret'.op = "deepcopy" =>
          \A self \in Ids(params) :
            DeepCopy(self) =>
              /\ self \in DOMAIN memo' /\ ret'.result = memo'[self]
              /\ self \in DOMAIN memo => ret'.result = memo[self] /\ params' = params
              /\ self \notin DOMAIN memo => ret'.result = Len(params) + 1 /\ Len(params') = Len(params) + 1
    ]_vars

\* a deep copy returned the earlier copy although the original's data and
\* tags were changed since that copy was made
DeepCopyIdentityWitness ==
  /\ ret.op = "deepcopy"
  /\ ret.self \in DOMAIN memo
  /\ ret.result = memo[ret.self]
  /\ DataOf(ret.self) # DataOf(ret.result)
  /\ Truthy(TagsOf(ret.self))
  /\ params[ret.self].tags # CallerDict

\* C4: a deep copy made on a memo miss is a new Parameter with a new storage
\* holding the original's elements and with the original's requires_grad; the
\* storages of an original and its copy stay distinct, and a write through
\* either leaves the other's data unchanged.
DeepCopyIndependent ==
  /\ [](\A self \in Copied : params[self].data # params[memo[self]].data)
  /\ [][/\ ret'.op = "deepcopy" =>
             \A self \in Ids(params) :
               (self \notin DOMAIN memo /\ DeepCopy(self)) =>
                  LET result == ret'.result
                  IN /\ result \notin Ids(params)
                     /\ params'[result].data \notin Ids(tensors)
                     /\ tensors'[params'[result].data] = DataOf(self)
                     /\ params'[result].requires_grad = params[self].requires_grad
                     /\ \A t \in Ids(tensors) : tensors'[t] = tensors[t]
        /\ tensors' # tensors =>
             \A self \in Copied, e \in Elems :
               /\ Fill(self, e) => tensors'[params[memo[self]].data] = DataOf(memo[self])
               /\ Fill(memo[self], e) => tensors'[params[self].data] = DataOf(self)
      ]_vars

DeepCopyIndependentWitness ==
  /\ ret = NoReturn
  /\ \E self \in Copied :
       /\ DataOf(self) = <<0>>
       /\ DataOf(memo[self]) = <<1>>
       /\ params[self].requires_grad = FALSE
       /\ params[memo[self]].requires_grad = FALSE

\* C5: Parameter(data, requires_grad, tags) returns a new instance that wraps
\* the very tensor passed as data (an empty new tensor when data is absent),
\* leaving every existing tensor as it was, and whose requires_grad is the
\* value passed (true when absent).
NewWraps ==
  [][ret'.op = "new" =>
       \A data \in DataArgs, rg \in RequiresGradArgs, tags \in TagsArgs :
         New(data, rg, tags) =>
           LET instance == ret'.result
           IN /\ instance = Len(params) + 1
              /\ \A t \in Ids(tensors) : tensors'[t] = tensors[t]
              /\ \A p \in Ids(params) : params'[p] = params[p]
              /\ data # None => params'[instance].data = data /\ tensors' = tensors
              /\ data = None => /\ params'[instance].data \notin Ids(tensors)
                                /\ tensors'[params'[instance].data] = <<>>
              /\ rg # <<>> => params'[instance].requires_grad = rg[1]
              /\ rg = <<>> => params'[instance].requires_grad = TRUE
    ]_vars

NewWrapsWitness ==
  /\ ret.op = "new"
  /\ Len(params) = 2
  /\ params[2].data = CallerTensor
  /\ params[2].requires_grad = FALSE
  /\ DataOf(1) = <<>>
  /\ params[1].requires_grad = TRUE

\* C6: construction without tags gives the instance a new empty mapping that
\* nothing else holds; construction with tags stores the very mapping that
\* was passed, so that the instance sees the caller's later mutations.
NewTags ==
  [][ret'.op = "new" =>
       \A data \in DataArgs, rg \in RequiresGradArgs, tags \in TagsArgs :
         New(data, rg, tags) =>
           LET instance == ret'.result
           IN /\ \A d \in Ids(dicts) : dicts'[d] = dicts[d]
              /\ tags = None => /\ params'[instance].tags \notin Ids(dicts)
                                /\ dicts'[params'[instance].tags] = EmptyDict
                                /\ \A p \in Ids(params) : params'[p].tags # params'[instance].tags
              /\ tags # None => params'[instance].tags = tags /\ dicts' = dicts
    ]_vars

\* two Parameters constructed without tags, one of which received a tag, and
\* a third state component: the caller's mapping, untouched by either
NewTagsWitness ==
  /\ Len(params) = 2
  /\ Copied = {}
  /\ params[1].tags # CallerDict
  /\ params[2].tags # CallerDict
  /\ params[1].tags # params[2].tags
  /\ Truthy(TagsOf(1))
  /\ ~Truthy(TagsOf(2))

\* C7: no two distinct Parameters hold the same tags mapping.
ExclusiveTags ==
  \A p, q \in Ids(params) : p # q => params[p].tags # params[q].tags

\* C8: a deep copy made on a memo miss is given the original's tags mapping
\* itself, no mapping is created or changed by the copy, and from then on the
\* original and its copy hold one mapping: each sees the other's tags.
DeepCopySharesTags ==
  /\ [](\A self \in Copied : /\ params[self].tags = params[memo[self]].tags
                             /\ TagsOf(self) = TagsOf(memo[self]))
  /\ [][/\ ret'.op = "deepcopy" =>
             \A self \in Ids(params) :
               (self \notin DOMAIN memo /\ DeepCopy(self)) =>
                 /\ params'[ret'.result].tags = params[self].tags
                 /\ dicts' = dicts
        /\ dicts' # dicts =>
             \A self \in Copied, k \in Keys :
               /\ \A v \in Vals : SetTag(memo[self], k, v) =>
                    (k \in DOMAIN dicts'[params[self].tags] /\ dicts'[params[self].tags][k] = v)
               /\ \A v \in Vals : SetTag(self, k, v) =>
                    (k \in DOMAIN dicts'[params[memo[self]].tags] /\ dicts'[params[memo[self]].tags][k] = v)
               /\ DelTag(memo[self], k) => k \notin DOMAIN dicts'[params[self].tags]
               /\ DelTag(self, k) => k \notin DOMAIN dicts'[params[memo[self]].tags]
      ]_vars

DeepCopySharesTagsWitness ==
  /\ ret = NoReturn
  /\ \E self \in Copied :
       /\ params[self].tags # CallerDict
       /\ Truthy(TagsOf(memo[self]))
       /\ ~Truthy(dicts[CallerDict])

\* C9: a deep copy that misses adds to the memo exactly the entry from the
\* original to the new copy and keeps every other entry; a deep copy that hits
\* changes neither the memo nor any heap; neither changes the original's
\* data, requires_grad or tags.
DeepCopyFrame ==
  [][ret'.op = "deepcopy" =>
       \A self \in Ids(params) :
         DeepCopy(self) =>
           /\ params'[self] = params[self]
           /\ tensors'[params[self].data] = DataOf(self)
           /\ dicts'[params[self].tags] = TagsOf(self)
           /\ self \in DOMAIN memo =>
                /\ memo' = memo
                /\ params' = params
                /\ tensors' = tensors
                /\ dicts' = dicts
           /\ self \notin DOMAIN memo =>
                /\ DOMAIN memo' = DOMAIN memo \cup {self}
                /\ memo'[self] = ret'.result
                /\ ret'.result = Len(params) + 1
                /\ Len(params') = Len(params) + 1
                /\ \A o \in DOMAIN memo : memo'[o] = memo[o]
                /\ \A p \in Ids(params) : params'[p] = params[p]
    ]_vars

\* a miss was recorded next to an entry that was already there
DeepCopyFrameWitness ==
  /\ ret.op = "deepcopy"
  /\ ret.result = Len(params)
  /\ Container \in DOMAIN memo
  /\ memo[Container] = Container
  /\ memo[ret.self] = ret.result
  /\ ret.result # ret.self

\* C10: the arity of the recipe follows the tags as they are when
\* __reduce_ex__ is called: 3 for a Parameter just constructed without tags or
\* with an empty mapping, 4 as soon as a tag is set, 3 again when the last tag
\* is deleted; an original and its deep copy always have the same arity, so a
\* tag set through the copy makes the original's recipe the 4-argument one.
ArityFollowsTags ==
  /\ [](\A self \in Copied : Arity(dicts, params, self) = Arity(dicts, params, memo[self]))
  /\ [][/\ ret'.op = "new" =>
             \A data \in DataArgs, rg \in RequiresGradArgs, tags \in TagsArgs :
               New(data, rg, tags) =>
                 (Arity(dicts', params', ret'.result) = 3 <=> (tags = None \/ ~Truthy(dicts[tags])))
        /\ ret'.op = "reduce" =>
             \A p \in Ids(params) :
               ReduceEx(p) => Len(recipe'.args) = Arity(dicts, params, p)
        /\ dicts' # dicts =>
             \A p \in Ids(params), k \in Keys :
               /\ \A v \in Vals : SetTag(p, k, v) => Arity(dicts', params', p) = 4
               /\ (DelTag(p, k) /\ DOMAIN TagsOf(p) = {k}) =>
                    (Arity(dicts, params, p) = 4 /\ Arity(dicts', params', p) = 3)
               /\ p \in Copied =>
                    \A v \in Vals : SetTag(memo[p], k, v) => Arity(dicts', params', p) = 4
      ]_vars

\* the original gave the 3-argument recipe, was then deep-copied, and now has
\* a tag: its next recipe has 4 arguments
ArityFollowsTagsWitness ==
  /\ ret = NoReturn
  /\ recipe.self \in Copied
  /\ Len(recipe.args) = 3
  /\ params[recipe.self].tags # CallerDict
  /\ Arity(dicts, params, recipe.self) = 4
  /\ Arity(dicts, params, memo[recipe.self]) = 4
====
